---- MODULE Spec2Model ----
(***************************************************************************)
(* The Anymino shape propagator of cspuz_rs_puzzles (anymino.rs): the      *)
(* canonicalizer normalize_block, the per-room scan of find_inconsistency  *)
(* and the notify / undo / initialize_sat shell around board and           *)
(* decision_stack.                                                         *)
(***************************************************************************)
EXTENDS Integers, Sequences, FiniteSets, TLC

VARIABLES
    height,          \* AnyminoConstraint.height
    width,           \* AnyminoConstraint.width
    rooms,           \* AnyminoConstraint.rooms: room id -> sequence of cells
    room_id_map,     \* AnyminoConstraint.room_id_map: cell -> room id
    board,           \* AnyminoConstraint.board: cell -> CellState
    decision_stack,  \* AnyminoConstraint.decision_stack
    status,          \* "ok", or "panicked" once a call has aborted the session
    call,            \* the last call made on the propagator and its arguments
    ret,             \* what that call returned
    reported,        \* <<room_id, adjacent_room_id>> at the `return Some`, else <<>>
    snapshot,        \* board and stack as they were when the last notify was entered
    balance,         \* notify calls minus undo calls since construction
    input,           \* the Vec<(i32, i32)> handed to normalize_block
    output,          \* what normalize_block returned for input
    second,          \* a second Vec handed to normalize_block
    second_output,   \* what normalize_block returned for second
    phase            \* which normalize_block calls have been made

vars == <<height, width, rooms, room_id_map, board, decision_stack,
          status, call, ret, reported, snapshot, balance,
          input, output, second, second_output, phase>>

(***************************************************************************)
(* Bounds of the exploration.                                              *)
(***************************************************************************)
\* deepest decision stack the host is let to build
MaxDepth == 4
\* deepest decision stack a caller bound by no protocol is let to build
MaxCallerDepth == 3
\* most cells of a block handed to normalize_block
MaxCells == 4
\* farthest translation, per axis, of a block handed to normalize_block
MaxShift == 1

(***************************************************************************)
(* CellState and the static puzzle partitions the propagator is built on.  *)
(***************************************************************************)
Black == "Black"
White == "White"
Undecided == "Undecided"
CellState == {Black, White, Undecided}

Cells(h, w) == (0 .. h - 1) \X (0 .. w - 1)

\* 2x3, two L-shaped rooms:   0 0 1
\*                            0 1 1
RoomsTwoL == [i \in 0 .. 1 |->
    IF i = 0 THEN << <<0, 0>>, <<0, 1>>, <<1, 0>> >>
             ELSE << <<0, 2>>, <<1, 1>>, <<1, 2>> >>]

\* 2x3, three rooms:          0 1 1
\*                            2 2 2
RoomsThree == [i \in 0 .. 2 |->
    IF i = 0 THEN << <<0, 0>> >>
    ELSE IF i = 1 THEN << <<0, 1>>, <<0, 2>> >>
    ELSE << <<1, 0>>, <<1, 1>>, <<1, 2>> >>]

Partitions == { [height |-> 2, width |-> 3, rooms |-> RoomsTwoL],
                [height |-> 2, width |-> 3, rooms |-> RoomsThree] }

SeqRange(s) == { s[i] : i \in DOMAIN s }

\* solve_anymino: room_id[y][x] = i for every (y, x) of rooms[i]
RoomIdOf(rs, h, w) ==
    [c \in Cells(h, w) |-> CHOOSE i \in DOMAIN rs : c \in SeqRange(rs[i])]

(***************************************************************************)
(* Shape canonicalizer.  A block is a Vec<(i32, i32)>: a sequence of       *)
(* <<y, x>>.                                                               *)
(***************************************************************************)
SetMin(S) == CHOOSE m \in S : \A n \in S : m <= n
SetMax(S) == CHOOSE m \in S : \A n \in S : m >= n

\* Ord on (i32, i32)
TupleLess(p, q) == p[1] < q[1] \/ (p[1] = q[1] /\ p[2] < q[2])

\* Ord on Vec<(i32, i32)>: first differing element, then length
RECURSIVE VecLessFrom(_, _, _)
VecLessFrom(a, b, i) ==
    IF i > Len(a) THEN i <= Len(b)
    ELSE IF i > Len(b) THEN FALSE
    ELSE IF a[i] = b[i] THEN VecLessFrom(a, b, i + 1)
    ELSE TupleLess(a[i], b[i])

VecLess(a, b) == VecLessFrom(a, b, 1)

\* fault: min always takes its argument
VecMin_TakesOther(a, b) == b

\* Ord::min: self when self <= other
VecMin(a, b) == IF VecLess(b, a) THEN b ELSE a

\* slice::sort
SortBlock(block) == SortSeq(block, TupleLess)

\* fault: the columns are not translated
adjust_bbox_RowsOnly(block) ==
    IF block = <<>> THEN block
    ELSE LET min_y == SetMin({ block[i][1] : i \in DOMAIN block })
         IN [i \in DOMAIN block |-> <<block[i][1] - min_y, block[i][2]>>]

adjust_bbox(block) ==
    IF block = <<>> THEN block
    ELSE LET min_y == SetMin({ block[i][1] : i \in DOMAIN block })
             min_x == SetMin({ block[i][2] : i \in DOMAIN block })
         IN [i \in DOMAIN block |-> <<block[i][1] - min_y, block[i][2] - min_x>>]

flip_block(block) ==
    LET ymax == SetMax({0} \cup { block[i][1] : i \in DOMAIN block })
    IN SortBlock([i \in DOMAIN block |-> <<ymax - block[i][1], block[i][2]>>])

\* fault: the rotation maps (y, x) to (x, y), a transposition
rotate_block_Transpose(block) ==
    SortBlock([i \in DOMAIN block |-> <<block[i][2], block[i][1]>>])

rotate_block(block) ==
    LET ymax == SetMax({0} \cup { block[i][1] : i \in DOMAIN block })
    IN SortBlock([i \in DOMAIN block |-> <<block[i][2], ymax - block[i][1]>>])

\* fault: `for i in 0..3`, the last rotation and its flip are never compared
RECURSIVE NormalizeLoop_ThreeTurns(_, _, _)
NormalizeLoop_ThreeTurns(i, ret0, block) ==
    LET r1 == VecMin(ret0, block)
        r2 == VecMin(r1, flip_block(block))
    IN IF i < 2 THEN NormalizeLoop_ThreeTurns(i + 1, r2, rotate_block(block)) ELSE r2

\* the body of `for i in 0..4`
RECURSIVE NormalizeLoop(_, _, _)
NormalizeLoop(i, ret0, block) ==
    LET r1 == VecMin(ret0, block)
        r2 == VecMin(r1, flip_block(block))
    IN IF i < 3 THEN NormalizeLoop(i + 1, r2, rotate_block(block)) ELSE r2

\* fault: `block.sort()` is missing
normalize_block_NoSort(block) ==
    IF block = <<>> THEN <<>>
    ELSE LET translated == adjust_bbox(block)
         IN NormalizeLoop(0, translated, translated)

normalize_block(block) ==
    IF block = <<>> THEN <<>>
    ELSE LET sorted == SortBlock(adjust_bbox(block))
         IN NormalizeLoop(0, sorted, sorted)

(***************************************************************************)
(* Region tracker: the first loop of find_inconsistency, per room, over a  *)
(* board b (self.board at the call).                                       *)
(***************************************************************************)
Directions == { <<0, 1>>, <<1, 0>>, <<0, -1>>, <<-1, 0>> }

\* the in-grid neighbours (ny, nx) of a cell; the others are `continue`d
Neighbours(c) ==
    { n \in { <<c[1] + d[1], c[2] + d[2]>> : d \in Directions } :
        ~(n[1] < 0 \/ n[1] >= height \/ n[2] < 0 \/ n[2] >= width) }

\* fault: the loop over room_cells starts at its second cell
BlackCells_SkipFirst(b, room_id) ==
    { c \in SeqRange(Tail(rooms[room_id])) : b[c] = Black }

\* black_cells[room_id]
BlackCells(b, room_id) ==
    { c \in SeqRange(rooms[room_id]) : b[c] = Black }

\* fault: a White neighbour of the room stops the scan like an Undecided one
IsClosed_WhiteStops(b, room_id) ==
    \A c \in BlackCells(b, room_id) : \A n \in Neighbours(c) :
        ~(room_id_map[n] = room_id /\ b[n] /= Black)

\* fault: an Undecided neighbour clears is_closed whatever its room
IsClosed_AnyRoom(b, room_id) ==
    \A c \in BlackCells(b, room_id) : \A n \in Neighbours(c) :
        ~(b[n] = Undecided)

\* fault: the Undecided test sits in the branch of the other rooms
IsClosed_OtherRoom(b, room_id) ==
    \A c \in BlackCells(b, room_id) : \A n \in Neighbours(c) :
        ~(room_id_map[n] /= room_id /\ b[n] = Undecided)

\* is_closed after the scan of room_id: no black cell met an Undecided
\* neighbour of its own room
IsClosed(b, room_id) ==
    \A c \in BlackCells(b, room_id) : \A n \in Neighbours(c) :
        ~(room_id_map[n] = room_id /\ b[n] = Undecided)

\* fault: every White cell of the room is recorded, neighbour or not
WhiteAdjacentCells_WholeRoom(b, room_id) ==
    { n \in SeqRange(rooms[room_id]) : b[n] = White }

\* fault: the room of a White neighbour is not tested
WhiteAdjacentCells_AnyRoom(b, room_id) ==
    { n \in UNION { Neighbours(c) : c \in BlackCells(b, room_id) } :
        b[n] = White }

\* white_adjacent_cells[room_id] after a scan that was not cut short
WhiteAdjacentCells(b, room_id) ==
    { n \in UNION { Neighbours(c) : c \in BlackCells(b, room_id) } :
        room_id_map[n] = room_id /\ b[n] = White }

\* fault: only the directions (0, 1) and (1, 0) are tried
AdjacentRooms_RightDown(b, room_id) ==
    { room_id_map[n] : n \in
        { m \in UNION { { <<c[1], c[2] + 1>>, <<c[1] + 1, c[2]>> } \cap Neighbours(c) :
                          c \in BlackCells(b, room_id) } :
            room_id_map[m] /= room_id /\ b[m] = Black } }

\* fault: the neighbour's colour is not tested
AdjacentRooms_AnyColour(b, room_id) ==
    { room_id_map[n] : n \in
        { m \in UNION { Neighbours(c) : c \in BlackCells(b, room_id) } :
            room_id_map[m] /= room_id } }

\* adjacent_rooms[room_id] after a scan that was not cut short
AdjacentRooms(b, room_id) ==
    { room_id_map[n] : n \in
        { m \in UNION { Neighbours(c) : c \in BlackCells(b, room_id) } :
            room_id_map[m] /= room_id /\ b[m] = Black } }

\* a set listed as a vector, in ascending order of the cells
RECURSIVE Collect(_)
Collect(S) ==
    IF S = {} THEN <<>>
    ELSE LET c == CHOOSE p \in S : \A q \in S : p = q \/ TupleLess(p, q)
         IN <<c>> \o Collect(S \ {c})

\* fault: is_closed is not consulted before the block is stored
ClosedBlocks_OpenToo(b, room_id) ==
    IF BlackCells(b, room_id) = {} THEN <<>>
    ELSE normalize_block(Collect(BlackCells(b, room_id)))

\* closed_blocks[room_id]: left empty for an open room and for a room
\* without black cells
ClosedBlocks(b, room_id) ==
    IF ~IsClosed(b, room_id) \/ BlackCells(b, room_id) = {} THEN <<>>
    ELSE normalize_block(Collect(BlackCells(b, room_id)))

(***************************************************************************)
(* The second loop of find_inconsistency.                                  *)
(***************************************************************************)
\* the adjacent_room_id values at which the inner loop returns for room_id,
\* given the vectors the first loop filled
ConflictPartners(closed_blocks, adjacent_rooms, room_id) ==
    IF closed_blocks[room_id] = <<>> THEN {}
    ELSE { a \in adjacent_rooms[room_id] :
             /\ closed_blocks[a] /= <<>>
             /\ closed_blocks[room_id] = closed_blocks[a] }

\* the pairs (room_id, adjacent_room_id) at which the two loops can return
\* on board b: the outer loop passes every room that has no partner to
\* return at, the inner one walks a hash set, in no fixed order
\* (`adjacent_rooms.is_empty()` tests the outer vector, which has one entry
\* per room, so it never skips a room)
\* fault: the outer loop runs from the last room down
ReturnPairs_LargestRoom(b) ==
    LET closed_blocks == [r \in DOMAIN rooms |-> ClosedBlocks(b, r)] @@ <<>>
        adjacent_rooms == [r \in DOMAIN rooms |-> AdjacentRooms(b, r)] @@ <<>>
        returning == { r \in DOMAIN rooms :
                         ConflictPartners(closed_blocks, adjacent_rooms, r) /= {} }
    IN IF returning = {} THEN {}
       ELSE { <<SetMax(returning), a>> :
                a \in ConflictPartners(closed_blocks, adjacent_rooms, SetMax(returning)) }

\* (the first loop has filled both vectors before the second one reads them:
\* `@@ <<>>` leaves a function as it is and has it computed once)
ReturnPairs(b) ==
    LET closed_blocks == [r \in DOMAIN rooms |-> ClosedBlocks(b, r)] @@ <<>>
        adjacent_rooms == [r \in DOMAIN rooms |-> AdjacentRooms(b, r)] @@ <<>>
        returning == { r \in DOMAIN rooms :
                         ConflictPartners(closed_blocks, adjacent_rooms, r) /= {} }
    IN IF returning = {} THEN {}
       ELSE { <<SetMin(returning), a>> :
                a \in ConflictPartners(closed_blocks, adjacent_rooms, SetMin(returning)) }

\* fault: the row is scaled by the height
LinearIndex_ByHeight(c) == c[1] * height + c[2]

LinearIndex(c) == c[1] * width + c[2]

Literals(S, value) ==
    LET cs == Collect(S)
    IN [i \in DOMAIN cs |-> <<LinearIndex(cs[i]), value>>]

\* fault: the two loops over the adjacent room are missing
Explanation_FirstRoomOnly(b, room_id, adjacent_room_id) ==
    Literals(BlackCells(b, room_id), TRUE)
        \o Literals(WhiteAdjacentCells(b, room_id), FALSE)

\* fault: the two loops over white_adjacent_cells are missing
Explanation_BlackOnly(b, room_id, adjacent_room_id) ==
    Literals(BlackCells(b, room_id), TRUE)
        \o Literals(BlackCells(b, adjacent_room_id), TRUE)

\* the vector `ret` built for the pair (room_id, adjacent_room_id): four
\* groups in the order of the four loops; inside a group the hash set's
\* iteration order is not fixed and the cells are listed in ascending order
Explanation(b, room_id, adjacent_room_id) ==
    Literals(BlackCells(b, room_id), TRUE)
        \o Literals(BlackCells(b, adjacent_room_id), TRUE)
        \o Literals(WhiteAdjacentCells(b, room_id), FALSE)
        \o Literals(WhiteAdjacentCells(b, adjacent_room_id), FALSE)

(***************************************************************************)
(* Return values and calls.                                                *)
(***************************************************************************)
Unit == [kind |-> "unit", lits |-> <<>>]
None == [kind |-> "None", lits |-> <<>>]
Some(v) == [kind |-> "Some", lits |-> v]
Aborted == [kind |-> "panic", lits |-> <<>>]

Call(op, index, value) == [op |-> op, index |-> index, value |-> value]

NoSnapshot == [taken |-> FALSE, board |-> <<>>, stack |-> <<>>]

Static == <<height, width, rooms, room_id_map>>

\* the blocks of the normalize_block calls; no operation of the constraint
\* keeps a block between calls
Blocks == <<input, output, second, second_output, phase>>

\* a panic unwinds out of the call: the session is over, nothing was written
Panic(c) ==
    /\ status' = "panicked"
    /\ call' = c
    /\ ret' = Aborted
    /\ UNCHANGED <<Blocks, Static, board, decision_stack, reported, snapshot, balance>>

(***************************************************************************)
(* AnyminoConstraint::new                                                  *)
(***************************************************************************)
Constructed(p) ==
    /\ height = p.height
    /\ width = p.width
    /\ rooms = p.rooms
    /\ room_id_map = RoomIdOf(p.rooms, p.height, p.width)
    /\ board = [c \in Cells(p.height, p.width) |-> Undecided]
    /\ decision_stack = <<>>
    /\ status = "ok"
    /\ call = Call("new", -1, FALSE)
    /\ ret = Unit
    /\ reported = <<>>
    /\ snapshot = NoSnapshot
    /\ balance = 0

Init ==
    \E p \in Partitions :
        /\ Constructed(p)
        /\ input = <<>>
        /\ output = <<>>
        /\ second = <<>>
        /\ second_output = <<>>
        /\ phase = "idle"

(***************************************************************************)
(* The four operations of SimpleCustomConstraint.                          *)
(***************************************************************************)
\* fault: the board and the stack are cleared on a matching count
initialize_sat_Resetting(num_inputs) ==
    /\ status = "ok"
    /\ IF num_inputs /= height * width
       THEN Panic(Call("initialize_sat", num_inputs, FALSE))
       ELSE /\ board' = [c \in DOMAIN board |-> Undecided]
            /\ decision_stack' = <<>>
            /\ call' = Call("initialize_sat", num_inputs, FALSE)
            /\ ret' = Unit
            /\ reported' = <<>>
            /\ snapshot' = NoSnapshot
            /\ UNCHANGED <<Blocks, Static, status, balance>>

\* fault: the assertion is compiled out
initialize_sat_Unchecked(num_inputs) ==
    /\ status = "ok"
    /\ call' = Call("initialize_sat", num_inputs, FALSE)
    /\ ret' = Unit
    /\ reported' = <<>>
    /\ snapshot' = NoSnapshot
    /\ UNCHANGED <<Blocks, Static, board, decision_stack, status, balance>>

initialize_sat(num_inputs) ==
    /\ status = "ok"
    /\ IF num_inputs /= height * width
       THEN Panic(Call("initialize_sat", num_inputs, FALSE))
       ELSE /\ call' = Call("initialize_sat", num_inputs, FALSE)
            /\ ret' = Unit
            /\ reported' = <<>>
            /\ snapshot' = NoSnapshot
            /\ UNCHANGED <<Blocks, Static, board, decision_stack, status, balance>>

\* fault: the stack push is missing
notify_NoPush(index, value) ==
    /\ status = "ok"
    /\ index \div width < height
    /\ board' = [board EXCEPT ![<<index \div width, index % width>>] =
                    IF value THEN Black ELSE White]
    /\ snapshot' = [taken |-> TRUE, board |-> board, stack |-> decision_stack]
    /\ balance' = balance + 1
    /\ call' = Call("notify", index, value)
    /\ ret' = Unit
    /\ reported' = <<>>
    /\ UNCHANGED <<Blocks, Static, status, decision_stack>>

\* fault: the two arms of the `if value` are swapped
notify_Inverted(index, value) ==
    /\ status = "ok"
    /\ index \div width < height
    /\ board' = [board EXCEPT ![<<index \div width, index % width>>] =
                    IF value THEN White ELSE Black]
    /\ decision_stack' = Append(decision_stack, <<index \div width, index % width>>)
    /\ snapshot' = [taken |-> TRUE, board |-> board, stack |-> decision_stack]
    /\ balance' = balance + 1
    /\ call' = Call("notify", index, value)
    /\ ret' = Unit
    /\ reported' = <<>>
    /\ UNCHANGED <<Blocks, Static, status>>

\* fault: the row is checked with `>` and the write past the board is lost
notify_RowOffByOne(index, value) ==
    /\ status = "ok"
    /\ LET y == index \div width
           x == index % width
       IN IF y > height
          THEN Panic(Call("notify", index, value))
          ELSE /\ board' = [c \in DOMAIN board |->
                              IF c = <<y, x>> THEN (IF value THEN Black ELSE White)
                              ELSE board[c]]
               /\ decision_stack' = Append(decision_stack, <<y, x>>)
               /\ snapshot' = [taken |-> TRUE, board |-> board, stack |-> decision_stack]
               /\ balance' = balance + 1
               /\ call' = Call("notify", index, value)
               /\ ret' = Unit
               /\ reported' = <<>>
               /\ UNCHANGED <<Blocks, Static, status>>

\* fault-free variant the code does not have: an assertion that the cell is
\* Undecided
notify_AssertUndecided(index, value) ==
    /\ status = "ok"
    /\ LET y == index \div width
           x == index % width
       IN IF y >= height \/ board[<<y, x>>] /= Undecided
          THEN Panic(Call("notify", index, value))
          ELSE /\ board' = [board EXCEPT ![<<y, x>>] = IF value THEN Black ELSE White]
               /\ decision_stack' = Append(decision_stack, <<y, x>>)
               /\ snapshot' = [taken |-> TRUE, board |-> board, stack |-> decision_stack]
               /\ balance' = balance + 1
               /\ call' = Call("notify", index, value)
               /\ ret' = Unit
               /\ reported' = <<>>
               /\ UNCHANGED <<Blocks, Static, status>>

notify(index, value) ==
    /\ status = "ok"
    /\ LET y == index \div width
           x == index % width
       IN IF y >= height
          THEN Panic(Call("notify", index, value))
          ELSE /\ board' = [board EXCEPT ![<<y, x>>] = IF value THEN Black ELSE White]
               /\ decision_stack' = Append(decision_stack, <<y, x>>)
               /\ snapshot' = [taken |-> TRUE, board |-> board, stack |-> decision_stack]
               /\ balance' = balance + 1
               /\ call' = Call("notify", index, value)
               /\ ret' = Unit
               /\ reported' = <<>>
               /\ UNCHANGED <<Blocks, Static, status>>

\* fault: only the room of the latest decision is scanned in the second loop
find_inconsistency_LatestRoom ==
    /\ status = "ok"
    /\ call' = Call("find_inconsistency", -1, FALSE)
    /\ LET pairs == { p \in ReturnPairs(board) :
                        /\ decision_stack /= <<>>
                        /\ p[1] = room_id_map[decision_stack[Len(decision_stack)]] }
       IN IF pairs = {}
          THEN /\ ret' = None
               /\ reported' = <<>>
          ELSE \E pair \in pairs :
                 /\ ret' = Some(Explanation(board, pair[1], pair[2]))
                 /\ reported' = pair
    /\ UNCHANGED <<Blocks, Static, board, decision_stack, status, snapshot, balance>>

\* fault: on a conflict the check retracts the latest decision itself
find_inconsistency_Retracting ==
    /\ status = "ok"
    /\ call' = Call("find_inconsistency", -1, FALSE)
    /\ IF ReturnPairs(board) = {}
       THEN /\ ret' = None
            /\ reported' = <<>>
            /\ UNCHANGED <<board, decision_stack>>
       ELSE \E pair \in ReturnPairs(board) :
              /\ ret' = Some(Explanation(board, pair[1], pair[2]))
              /\ reported' = pair
              /\ board' = [board EXCEPT ![decision_stack[Len(decision_stack)]] = Undecided]
              /\ decision_stack' = SubSeq(decision_stack, 1, Len(decision_stack) - 1)
    /\ UNCHANGED <<Blocks, Static, status, snapshot, balance>>

find_inconsistency ==
    /\ status = "ok"
    /\ call' = Call("find_inconsistency", -1, FALSE)
    /\ IF ReturnPairs(board) = {}
       THEN /\ ret' = None
            /\ reported' = <<>>
       ELSE \E pair \in ReturnPairs(board) :
              /\ ret' = Some(Explanation(board, pair[1], pair[2]))
              /\ reported' = pair
    /\ UNCHANGED <<Blocks, Static, board, decision_stack, status, snapshot, balance>>

\* fault: the popped cell is not reset
undo_KeepCell ==
    /\ status = "ok"
    /\ decision_stack /= <<>>
    /\ decision_stack' = SubSeq(decision_stack, 1, Len(decision_stack) - 1)
    /\ balance' = balance - 1
    /\ call' = Call("undo", -1, FALSE)
    /\ ret' = Unit
    /\ reported' = <<>>
    /\ snapshot' = NoSnapshot
    /\ UNCHANGED <<Blocks, Static, status, board>>

\* fault: last() instead of pop(): the entry stays on the stack
undo_NoPop ==
    /\ status = "ok"
    /\ decision_stack /= <<>>
    /\ board' = [board EXCEPT ![decision_stack[Len(decision_stack)]] = Undecided]
    /\ balance' = balance - 1
    /\ call' = Call("undo", -1, FALSE)
    /\ ret' = Unit
    /\ reported' = <<>>
    /\ snapshot' = NoSnapshot
    /\ UNCHANGED <<Blocks, Static, status, decision_stack>>

\* fault: remove(0) instead of pop(): the oldest entry is retracted
undo_Fifo ==
    /\ status = "ok"
    /\ decision_stack /= <<>>
    /\ board' = [board EXCEPT ![decision_stack[1]] = Undecided]
    /\ decision_stack' = Tail(decision_stack)
    /\ balance' = balance - 1
    /\ call' = Call("undo", -1, FALSE)
    /\ ret' = Unit
    /\ reported' = <<>>
    /\ snapshot' = NoSnapshot
    /\ UNCHANGED <<Blocks, Static, status>>

\* fault: `if let Some(..) = pop()`: an empty stack is passed over
undo_EmptyIgnored ==
    /\ status = "ok"
    /\ call' = Call("undo", -1, FALSE)
    /\ ret' = Unit
    /\ reported' = <<>>
    /\ snapshot' = NoSnapshot
    /\ IF decision_stack = <<>>
       THEN UNCHANGED <<Blocks, Static, status, board, decision_stack, balance>>
       ELSE /\ decision_stack' = SubSeq(decision_stack, 1, Len(decision_stack) - 1)
            /\ board' = [board EXCEPT ![decision_stack[Len(decision_stack)]] = Undecided]
            /\ balance' = balance - 1
            /\ UNCHANGED <<Blocks, Static, status>>

undo ==
    /\ status = "ok"
    /\ IF decision_stack = <<>>
       THEN Panic(Call("undo", -1, FALSE))
       ELSE LET top == decision_stack[Len(decision_stack)]
            IN /\ decision_stack' = SubSeq(decision_stack, 1, Len(decision_stack) - 1)
               /\ board' = [board EXCEPT ![top] = Undecided]
               /\ balance' = balance - 1
               /\ call' = Call("undo", -1, FALSE)
               /\ ret' = Unit
               /\ reported' = <<>>
               /\ snapshot' = NoSnapshot
               /\ UNCHANGED <<Blocks, Static, status>>

(***************************************************************************)
(* The host solver: initialize once, then notify each free variable at     *)
(* most once, check when it likes, and retract in LIFO order.              *)
(***************************************************************************)
Initialized == call.op /= "new"

HostInitialize ==
    /\ ~Initialized
    /\ initialize_sat(height * width)

HostNotify ==
    /\ Initialized
    /\ Len(decision_stack) < MaxDepth
    /\ \E index \in 0 .. height * width - 1, value \in BOOLEAN :
         /\ board[<<index \div width, index % width>>] = Undecided
         /\ notify(index, value)

HostCheck ==
    /\ Initialized
    /\ find_inconsistency

HostUndo ==
    /\ Initialized
    /\ decision_stack /= <<>>
    /\ undo

Next == HostInitialize \/ HostNotify \/ HostCheck \/ HostUndo

Spec == Init /\ [][Next]_vars

(***************************************************************************)
(* A host that branches on its variables in ascending index order (it may  *)
(* skip any): every board of the grid is reached, each under one stack.    *)
(***************************************************************************)
HostBranch ==
    /\ Initialized
    /\ \E index \in 0 .. height * width - 1, value \in BOOLEAN :
         /\ board[<<index \div width, index % width>>] = Undecided
         /\ \A i \in DOMAIN decision_stack : LinearIndex(decision_stack[i]) < index
         /\ notify(index, value)

NextAscending == HostInitialize \/ HostBranch \/ HostCheck \/ HostUndo

SpecAscending == Init /\ [][NextAscending]_vars

(***************************************************************************)
(* A caller bound by nothing but the signatures: any count, any index up   *)
(* to the first one past the grid, cells decided or not, undo on an empty  *)
(* stack.  A panic ends the session.                                       *)
(***************************************************************************)
CallerInitialize ==
    \E num_inputs \in { height * width, height * width + 1 } :
        initialize_sat(num_inputs)

CallerNotify ==
    /\ Len(decision_stack) < MaxCallerDepth
    /\ \E index \in 0 .. height * width, value \in BOOLEAN :
         notify(index, value)

CallerCheck == find_inconsistency

CallerUndo == undo

NextAnyCaller == CallerInitialize \/ CallerNotify \/ CallerCheck \/ CallerUndo

SpecAnyCaller == Init /\ [][NextAnyCaller]_vars

(***************************************************************************)
(* The 2x4 grid of two rows, a region each, whose cells the host turns     *)
(* Black one by one, in any order, down to the full board.                 *)
(***************************************************************************)
\* 2x4, region A over region B:   0 0 0 0
\*                                1 1 1 1
RoomsTwoRows == [i \in 0 .. 1 |->
    << <<i, 0>>, <<i, 1>>, <<i, 2>>, <<i, 3>> >>]

InitTwoRows ==
    /\ Constructed([height |-> 2, width |-> 4, rooms |-> RoomsTwoRows])
    /\ input = <<>>
    /\ output = <<>>
    /\ second = <<>>
    /\ second_output = <<>>
    /\ phase = "idle"

HostNotifyBlack ==
    /\ Initialized
    /\ \E index \in 0 .. height * width - 1 :
         /\ board[<<index \div width, index % width>>] = Undecided
         /\ notify(index, TRUE)

NextTwoRows == HostInitialize \/ HostNotifyBlack \/ HostCheck

SpecTwoRows == InitTwoRows /\ [][NextTwoRows]_vars

(***************************************************************************)
(* A 2x2 grid on which one region has two neighbours: the host decides its *)
(* cells in every order, down to the full board.                           *)
(***************************************************************************)
\* 2x2, three rooms:          0 1
\*                            2 2
RoomsCorner == [i \in 0 .. 2 |->
    IF i = 0 THEN << <<0, 0>> >>
    ELSE IF i = 1 THEN << <<0, 1>> >>
    ELSE << <<1, 0>>, <<1, 1>> >>]

InitCorner ==
    /\ Constructed([height |-> 2, width |-> 2, rooms |-> RoomsCorner])
    /\ input = <<>>
    /\ output = <<>>
    /\ second = <<>>
    /\ second_output = <<>>
    /\ phase = "idle"

SpecCorner == InitCorner /\ [][Next]_vars

(***************************************************************************)
(* The symmetries of the square, on sets of coordinates <<row, column>>.   *)
(***************************************************************************)
\* a quarter turn about the origin
QuarterTurn(c) == <<c[2], -c[1]>>

RECURSIVE Turned(_, _)
Turned(c, k) == IF k = 0 THEN c ELSE Turned(QuarterTurn(c), k - 1)

\* the mirror image about the row axis
Mirrored(c) == <<-c[1], c[2]>>

\* k quarter turns, then the mirror when m
Symmetry(S, k, m) ==
    { IF m THEN Mirrored(Turned(c, k)) ELSE Turned(c, k) : c \in S }

Translated(S, dy, dx) == { <<c[1] + dy, c[2] + dx>> : c \in S }

\* S moved so that its least row and its least column are 0
Anchored(S) ==
    IF S = {} THEN {}
    ELSE Translated(S, -SetMin({ c[1] : c \in S }), -SetMin({ c[2] : c \in S }))

\* T is the image of S under a translation composed with one of the 8
\* symmetries
Congruent(S, T) ==
    \E k \in 0 .. 3, m \in BOOLEAN : Anchored(Symmetry(S, k, m)) = Anchored(T)

\* the vectors that list every cell of S once
Orderings(S) ==
    { v \in [1 .. Cardinality(S) -> S] : SeqRange(v) = S }

(***************************************************************************)
(* normalize_block as a function of its argument: the blocks it is called  *)
(* on are sets of at most MaxCells cells of the grid, their images under   *)
(* the symmetries and translations by at most MaxShift, and its own        *)
(* results.                                                                *)
(***************************************************************************)
InputSets(h, w) == { S \in SUBSET Cells(h, w) : Cardinality(S) <= MaxCells }

Shifts == (0 - MaxShift) .. MaxShift

InitBlocks ==
    \E p \in Partitions :
        /\ Constructed(p)
        /\ \E S \in InputSets(p.height, p.width) : input = Collect(S)
        /\ output = <<>>
        /\ second = <<>>
        /\ second_output = <<>>
        /\ phase = "input"

Propagator == <<Static, board, decision_stack, status, call, ret, reported,
                snapshot, balance>>

\* normalize_block(input)
Normalize ==
    /\ phase = "input"
    /\ output' = normalize_block(input)
    /\ phase' = "normalized"
    /\ UNCHANGED <<Propagator, input, second, second_output>>

\* normalize_block on the cells of an earlier result, in any order
Renormalize ==
    /\ phase = "normalized"
    /\ \E v \in Orderings(SeqRange(output)) :
         /\ second' = v
         /\ second_output' = normalize_block(v)
    /\ phase' = "renormalized"
    /\ UNCHANGED <<Propagator, input, output>>

\* normalize_block on the cells of input in another order
Reorder ==
    /\ phase = "normalized"
    /\ \E v \in Orderings(SeqRange(input)) :
         /\ second' = v
         /\ second_output' = normalize_block(v)
    /\ phase' = "reordered"
    /\ UNCHANGED <<Propagator, input, output>>

\* normalize_block on a turned, mirrored and translated copy of input,
\* cell by cell in the order of input
Transform ==
    /\ phase = "normalized"
    /\ \E k \in 0 .. 3, m \in BOOLEAN, dy \in Shifts, dx \in Shifts :
         LET Image(c) == LET t == IF m THEN Mirrored(Turned(c, k)) ELSE Turned(c, k)
                         IN <<t[1] + dy, t[2] + dx>>
             v == [i \in DOMAIN input |-> Image(input[i])]
         IN /\ second' = v
            /\ second_output' = normalize_block(v)
    /\ phase' = "transformed"
    /\ UNCHANGED <<Propagator, input, output>>

\* normalize_block on an unrelated block
Compare ==
    /\ phase = "normalized"
    /\ \E S \in InputSets(height, width) :
         /\ second' = Collect(S)
         /\ second_output' = normalize_block(Collect(S))
    /\ phase' = "compared"
    /\ UNCHANGED <<Propagator, input, output>>

NextBlocks == Normalize \/ Renormalize \/ Reorder \/ Transform \/ Compare

SpecBlocks == InitBlocks /\ [][NextBlocks]_vars

(***************************************************************************)
(* Vocabulary of the properties, read off the board and the room map.      *)
(***************************************************************************)
Grid == Cells(height, width)

RoomIds == { room_id_map[c] : c \in Grid }

Touching(c, d) ==
    \/ (c[1] = d[1] /\ (c[2] = d[2] + 1 \/ d[2] = c[2] + 1))
    \/ (c[2] = d[2] /\ (c[1] = d[1] + 1 \/ d[1] = c[1] + 1))

BlackOf(b, R) == { c \in Grid : room_id_map[c] = R /\ b[c] = Black }

\* no Black cell of R has an Undecided 4-neighbour in R
ClosedRegion(b, R) ==
    \A c \in BlackOf(b, R) : \A d \in Grid :
        (room_id_map[d] = R /\ Touching(c, d)) => b[d] /= Undecided

\* some Black cell of R has a Black 4-neighbour in R2
BlackAdjacent(b, R, R2) ==
    \E c \in BlackOf(b, R), d \in BlackOf(b, R2) : Touching(c, d)

\* the White cells of R that are 4-neighbours of a Black cell of R
BoundaryWhiteOf(b, R) ==
    { d \in Grid : /\ room_id_map[d] = R
                   /\ b[d] = White
                   /\ \E c \in BlackOf(b, R) : Touching(c, d) }

ViolatingPair(b, R, R2) ==
    /\ R /= R2
    /\ BlackAdjacent(b, R, R2)
    /\ ClosedRegion(b, R) /\ ClosedRegion(b, R2)
    /\ BlackOf(b, R) /= {} /\ BlackOf(b, R2) /= {}
    /\ normalize_block(Collect(BlackOf(b, R))) = normalize_block(Collect(BlackOf(b, R2)))

SomeViolatingPair(b) == \E R \in RoomIds, R2 \in RoomIds : ViolatingPair(b, R, R2)

Checked == call.op = "find_inconsistency" /\ status = "ok"

Conflict == Checked /\ ret.kind = "Some"

\* the boards that agree with every literal of an explanation
AgreeingBoards(lits) ==
    { b \in [Grid -> CellState] :
        \A i \in DOMAIN lits :
            b[<<lits[i][1] \div width, lits[i][1] % width>>]
                = (IF lits[i][2] THEN Black ELSE White) }

(***************************************************************************)
(* C1..C10                                                                 *)
(***************************************************************************)
\* C1: find_inconsistency returns an explanation only if two distinct rooms
\* are black-adjacent, both closed, both with a Black cell and of equal
\* canonical shape; and no room without Black cells is in the reported pair.
C1_NoFalsePositives ==
    Conflict =>
        /\ SomeViolatingPair(board)
        /\ BlackOf(board, reported[1]) /= {}
        /\ BlackOf(board, reported[2]) /= {}

\* a conflict is reported while a room without any Black cell stands closed
C1_Witness ==
    /\ Conflict
    /\ \E R \in RoomIds : BlackOf(board, R) = {}

\* C2: whenever some violating pair exists, find_inconsistency returns an
\* explanation, and the pair it returns at is a violating pair.
C2_Complete ==
    (Checked /\ SomeViolatingPair(board)) =>
        /\ ret.kind = "Some"
        /\ ViolatingPair(board, reported[1], reported[2])

\* a check on a board where room 0 has two violating partners
C2_Witness ==
    /\ Conflict
    /\ \E R \in RoomIds, R2 \in RoomIds :
         /\ R /= R2
         /\ ViolatingPair(board, 0, R)
         /\ ViolatingPair(board, 0, R2)

\* C3: the literals returned for the pair (R, R2) are exactly the Black cells
\* of both rooms as true and the White same-room neighbours of those Black
\* cells as false.
C3_ExactExplanation ==
    Conflict =>
        SeqRange(ret.lits) =
            { <<c[1] * width + c[2], TRUE>> :
                c \in BlackOf(board, reported[1]) \cup BlackOf(board, reported[2]) }
            \cup
            { <<c[1] * width + c[2], FALSE>> :
                c \in BoundaryWhiteOf(board, reported[1])
                        \cup BoundaryWhiteOf(board, reported[2]) }

\* an explanation with a false literal, on a board that holds a White cell
\* elsewhere in the pair's rooms and a decided cell of a third room
C3_Witness ==
    /\ Conflict
    /\ \E i \in DOMAIN ret.lits : ret.lits[i][2] = FALSE
    /\ \E c \in Grid :
         /\ room_id_map[c] \in { reported[1], reported[2] }
         /\ board[c] = White
         /\ <<c[1] * width + c[2], FALSE>> \notin SeqRange(ret.lits)
    /\ \E c \in Grid :
         /\ room_id_map[c] \notin { reported[1], reported[2] }
         /\ board[c] /= Undecided

\* C4 as stated: on every board that agrees with all literals of the
\* explanation, find_inconsistency reports a conflict again.
C4_SufficientAnyBoard ==
    Conflict =>
        \A b \in AgreeingBoards(ret.lits) : ReturnPairs(b) /= {}

\* C4 amended: on every board that agrees with all literals of the
\* explanation and has no further Black cell in the two explained rooms,
\* find_inconsistency reports a conflict again.
C4_SufficientSameBlacks ==
    Conflict =>
        \A b \in AgreeingBoards(ret.lits) :
            ( /\ BlackOf(b, reported[1]) = BlackOf(board, reported[1])
              /\ BlackOf(b, reported[2]) = BlackOf(board, reported[2]) )
            => ReturnPairs(b) /= {}

\* an explanation that leaves cells of the grid free, some in a third room
C4_Witness ==
    /\ Conflict
    /\ \E c \in Grid :
         /\ room_id_map[c] \notin { reported[1], reported[2] }
         /\ board[c] = Undecided
    /\ \E i \in DOMAIN ret.lits : ret.lits[i][2] = FALSE

\* C5: a find_inconsistency call leaves board, decision stack and partition
\* as they were, and a call repeated on the unchanged state gives the same
\* verdict.
C5_CheckIsPure ==
    [][ (call'.op = "find_inconsistency") =>
          /\ board' = board
          /\ decision_stack' = decision_stack
          /\ Static' = Static
          /\ (call.op = "find_inconsistency" => ret'.kind = ret.kind) ]_vars

\* a conflict was returned where the scan could have returned at another pair
C5_Witness ==
    /\ Conflict
    /\ decision_stack /= <<>>
    /\ Cardinality(ReturnPairs(board)) > 1

\* C6: once as many undo as notify calls have been made, every cell is
\* Undecided and the decision stack is empty.
C6_StackDiscipline ==
    (balance = 0) =>
        /\ \A c \in Grid : board[c] = Undecided
        /\ decision_stack = <<>>

\* the last of the undo calls has returned
C6_Witness ==
    /\ call.op = "undo"
    /\ status = "ok"
    /\ balance = 0

\* C7: the decision stack is as long as the number of Black or White cells.
C7_StackLength ==
    Len(decision_stack) = Cardinality({ c \in Grid : board[c] /= Undecided })

\* cells of both colours are decided and an undo has just popped one
C7_Witness ==
    /\ call.op = "undo"
    /\ Len(decision_stack) >= 2
    /\ \E c \in Grid : board[c] = Black
    /\ \E c \in Grid : board[c] = White

\* C8: every coordinate on the decision stack is of a Black or White cell,
\* and none occurs twice.
C8_StackEntries ==
    /\ \A i \in DOMAIN decision_stack : board[decision_stack[i]] /= Undecided
    /\ \A i \in DOMAIN decision_stack : \A j \in DOMAIN decision_stack :
         (i /= j) => decision_stack[i] /= decision_stack[j]

\* entries remain on the stack after an undo
C8_Witness ==
    /\ call.op = "undo"
    /\ status = "ok"
    /\ Len(decision_stack) >= 3

\* C9: notify(index, value) sets exactly the cell (index / width,
\* index % width) to Black or White by value, pushes it on top of the stack
\* and changes nothing else.
C9_NotifyFrame ==
    [][ (call'.op = "notify" /\ status' = "ok") =>
          LET cell == <<call'.index \div width, call'.index % width>>
          IN /\ board' = [c \in Grid |->
                            IF c = cell
                            THEN (IF call'.value THEN Black ELSE White)
                            ELSE board[c]]
             /\ decision_stack' = decision_stack \o <<cell>>
             /\ Static' = Static ]_vars

\* a notify of White on the last cell of the grid, which was Black already,
\* over earlier entries
C9_Witness ==
    /\ call.op = "notify"
    /\ status = "ok"
    /\ call.value = FALSE
    /\ call.index = height * width - 1
    /\ Len(decision_stack) >= 2
    /\ snapshot.board[<<height - 1, width - 1>>] = Black

\* C10: undo removes the top of the stack, sets exactly that cell to
\* Undecided and changes nothing else; after a notify of an Undecided cell
\* it gives back the board and stack the notify was entered with.
C10_UndoLifo ==
    [][ (call'.op = "undo" /\ status' = "ok") =>
          /\ decision_stack /= <<>>
          /\ decision_stack =
                decision_stack' \o << decision_stack[Len(decision_stack)] >>
          /\ board' = [c \in Grid |->
                         IF c = decision_stack[Len(decision_stack)]
                         THEN Undecided ELSE board[c]]
          /\ Static' = Static
          /\ ( ( /\ snapshot.taken
                 /\ snapshot.board[decision_stack[Len(decision_stack)]] = Undecided )
               => ( /\ board' = snapshot.board
                    /\ decision_stack' = snapshot.stack ) ) ]_vars

\* an undo has popped the top and left earlier entries in place
C10_Witness ==
    /\ call.op = "undo"
    /\ status = "ok"
    /\ Len(decision_stack) >= 1

(***************************************************************************)
(* C11..C15                                                                *)
(***************************************************************************)
AllUndecided(b) == \A c \in Grid : b[c] = Undecided

\* the cell a notify argument addresses
CellOf(index) == <<index \div width, index % width>>

\* C11 as stated: after initialize_sat with a count equal to height * width
\* every cell is Undecided and the decision stack is empty, whatever they
\* were before.
C11_InitializeResets ==
    (call.op = "initialize_sat" /\ call.index = height * width) =>
        /\ AllUndecided(board)
        /\ decision_stack = <<>>

\* C11 amended: initialize_sat with a count equal to height * width returns
\* and leaves the board and the decision stack as they were; called on the
\* freshly constructed propagator it leaves every cell Undecided and the
\* stack empty.
C11_InitializeKeeps ==
    [][ (call'.op = "initialize_sat" /\ call'.index = height * width) =>
          /\ status' = "ok"
          /\ board' = board
          /\ decision_stack' = decision_stack
          /\ (call.op = "new" => (AllUndecided(board') /\ decision_stack' = <<>>)) ]_vars

\* initialize_sat has returned on a propagator that holds decisions
C11_Witness ==
    /\ call.op = "initialize_sat"
    /\ status = "ok"
    /\ decision_stack /= <<>>
    /\ ~AllUndecided(board)

\* C12: initialize_sat with a count other than height * width does not
\* return, and neither the board nor the decision stack is modified.
C12_InitializeMismatch ==
    [][ (call'.op = "initialize_sat" /\ call'.index /= height * width) =>
          /\ status' = "panicked"
          /\ ret' = Aborted
          /\ board' = board
          /\ decision_stack' = decision_stack ]_vars

\* the session was aborted by a mismatched count while decisions stood
C12_Witness ==
    /\ call.op = "initialize_sat"
    /\ call.index /= height * width
    /\ status = "panicked"
    /\ decision_stack /= <<>>

\* C13: undo on an empty decision stack does not return, and no cell of the
\* board changes.
C13_UndoEmpty ==
    [][ (call'.op = "undo" /\ decision_stack = <<>>) =>
          /\ status' = "panicked"
          /\ ret' = Aborted
          /\ board' = board
          /\ decision_stack' = <<>> ]_vars

\* the session was aborted by an undo while the stack was empty
C13_Witness ==
    /\ call.op = "undo"
    /\ status = "panicked"
    /\ decision_stack = <<>>
    /\ snapshot = NoSnapshot
    /\ balance = 0

\* C14: notify with index >= height * width does not return: no cell is
\* changed and nothing is pushed.
C14_NotifyOutOfRange ==
    [][ (call'.op = "notify" /\ call'.index >= height * width) =>
          /\ status' = "panicked"
          /\ ret' = Aborted
          /\ board' = board
          /\ decision_stack' = decision_stack ]_vars

\* the session was aborted by an out-of-range notify while decisions stood
C14_Witness ==
    /\ call.op = "notify"
    /\ call.index >= height * width
    /\ status = "panicked"
    /\ decision_stack /= <<>>

\* C15 as stated: a notify on a cell that is already Black or White does
\* not complete as an assignment that overwrites the cell and pushes a
\* second entry for its coordinate.
C15_NotifyDecidedFaults ==
    [][ ( /\ call'.op = "notify"
          /\ call'.index < height * width
          /\ board[CellOf(call'.index)] /= Undecided )
        => ~( /\ status' = "ok"
              /\ board'[CellOf(call'.index)] = (IF call'.value THEN Black ELSE White)
              /\ decision_stack' = decision_stack \o << CellOf(call'.index) >> ) ]_vars

\* C15 amended: notify does not test the target cell; on a cell that is
\* already Black or White it returns like any assignment, the cell takes the
\* new value and a further entry for its coordinate is pushed.
C15_NotifyDecidedOverwrites ==
    [][ ( /\ call'.op = "notify"
          /\ call'.index < height * width
          /\ board[CellOf(call'.index)] /= Undecided )
        => ( /\ status' = "ok"
             /\ ret' = Unit
             /\ board'[CellOf(call'.index)] = (IF call'.value THEN Black ELSE White)
             /\ decision_stack' = decision_stack \o << CellOf(call'.index) >> ) ]_vars

\* a Black cell was notified White: its coordinate is on the stack twice
C15_Witness ==
    /\ call.op = "notify"
    /\ status = "ok"
    /\ call.index < height * width
    /\ snapshot.board[CellOf(call.index)] = Black
    /\ board[CellOf(call.index)] = White
    /\ \E i \in DOMAIN decision_stack : \E j \in DOMAIN decision_stack :
         i /= j /\ decision_stack[i] = decision_stack[j]

(***************************************************************************)
(* C16..C20: normalize_block as a function of the block it is given.       *)
(***************************************************************************)
CellsOf(v) == SeqRange(v)

\* the order of coordinates: by row, then by column
Before(p, q) == p[1] < q[1] \/ (p[1] = q[1] /\ p[2] < q[2])

\* the least coordinate of a non-empty set
First(S) == CHOOSE p \in S : \A q \in S : p = q \/ Before(p, q)

\* v lists its cells in strictly ascending order
Ascending(v) == \A i \in DOMAIN v : \A j \in DOMAIN v : i < j => Before(v[i], v[j])

\* of two sets of as many cells, A comes first when listed in order: at the
\* first place where the lists differ, the cell of A is the earlier one
ListedBefore(A, B) ==
    /\ A /= B
    /\ First((A \ B) \cup (B \ A)) \in A

RowMax(S) == SetMax({ c[1] : c \in S })

\* (r, c) -> (c, rmax - r)
Rotation(S) == { <<c[2], RowMax(S) - c[1]>> : c \in S }

\* (r, c) -> (rmax - r, c)
VerticalFlip(S) == { <<RowMax(S) - c[1], c[2]>> : c \in S }

\* the translated input, its three successive rotations, and the flip of
\* each of the four
EightImages(S) ==
    LET r0 == Anchored(S)
        r1 == Rotation(r0)
        r2 == Rotation(r1)
        r3 == Rotation(r2)
    IN { r0, r1, r2, r3,
         VerticalFlip(r0), VerticalFlip(r1), VerticalFlip(r2), VerticalFlip(r3) }

\* out is the ascending list of the image of the cells of in that comes
\* first, with least row 0 and least column 0; nothing for nothing
LeastImage(in, out) ==
    IF in = <<>> THEN out = <<>>
    ELSE /\ Ascending(out)
         /\ CellsOf(out) \in EightImages(CellsOf(in))
         /\ \A I \in EightImages(CellsOf(in)) : ~ListedBefore(I, CellsOf(out))
         /\ SetMin({ c[1] : c \in CellsOf(out) }) = 0
         /\ SetMin({ c[2] : c \in CellsOf(out) }) = 0

\* C16: a block and its image under a translation composed with any of the
\* 8 symmetries of the square have the same normalize_block result
C16_Invariance ==
    phase = "transformed" => second_output = output

\* C16 witness: a four-cell block and a copy of it that is no mere
\* translation of it have both been normalized
C16_Witness ==
    /\ phase = "transformed"
    /\ Len(input) = MaxCells
    /\ Anchored(CellsOf(second)) /= Anchored(CellsOf(input))
    /\ \E c \in CellsOf(second) : c[1] < 0 \/ c[2] < 0
    /\ second_output = output

\* C17: two blocks have the same normalize_block result exactly when one
\* is the image of the other under a translation composed with one of the
\* 8 symmetries; the result is itself such an image of the block, with as
\* many cells
C17_UniqueRepresentative ==
    /\ phase \notin {"idle", "input"} =>
         /\ Congruent(CellsOf(input), CellsOf(output))
         /\ Len(output) = Cardinality(CellsOf(input))
    /\ phase \notin {"idle", "input", "normalized"} =>
         ((second_output = output) <=> Congruent(CellsOf(input), CellsOf(second)))

\* C17 witness: two blocks of as many cells that are no images of one
\* another have been normalized, to different results
C17_Witness ==
    /\ phase = "compared"
    /\ Len(input) = MaxCells
    /\ Len(second) = Len(input)
    /\ ~Congruent(CellsOf(input), CellsOf(second))
    /\ second_output /= output

\* C18: normalize_block of the cells of a normalize_block result is that
\* result
C18_Idempotent ==
    phase = "renormalized" => second_output = output

\* C18 witness: the result of a block that is not its own result has been
\* fed back, its cells in another order
C18_Witness ==
    /\ phase = "renormalized"
    /\ Len(input) = MaxCells
    /\ output /= input
    /\ second /= output
    /\ second_output = output

\* C19: normalize_block returns, in ascending order, the image that comes
\* first among the 8 images of its input (the translated input, its three
\* successive rotations and the vertical flip of each); the least row and
\* the least column of the result are 0, and the empty input gives the
\* empty output
C19_LeastOfEightImages ==
    /\ phase \notin {"idle", "input"} => LeastImage(input, output)
    /\ phase \notin {"idle", "input", "normalized"} => LeastImage(second, second_output)

\* C19 witness: a block whose 8 images are all different has been
\* normalized, to an image other than the translated block
C19_Witness ==
    /\ phase = "normalized"
    /\ Cardinality(EightImages(CellsOf(input))) = 8
    /\ CellsOf(output) /= Anchored(CellsOf(input))
    /\ LeastImage(input, output)

\* C20: normalize_block returns the same list for every order in which the
\* cells of a set are listed in its argument
C20_OrderIndependent ==
    phase = "reordered" => second_output = output

\* C20 witness: the cells of a four-cell block have been normalized in
\* ascending order and in an order that is not ascending
C20_Witness ==
    /\ phase = "reordered"
    /\ Len(input) = MaxCells
    /\ ~Ascending(second)
    /\ second_output = output

(***************************************************************************)
(* C21..C30: the verdicts of find_inconsistency.                           *)
(***************************************************************************)
\* some Black cell of R has an Undecided 4-neighbour in R
OpenRegion(b, R) ==
    \E c \in BlackOf(b, R), d \in Grid :
        room_id_map[d] = R /\ Touching(c, d) /\ b[d] = Undecided

\* R and R2 are closed, hold Black cells, and their Black cells are images
\* of one another under a translation and a symmetry of the square
SameShapeClosed(b, R, R2) ==
    /\ R /= R2
    /\ ~OpenRegion(b, R) /\ ~OpenRegion(b, R2)
    /\ BlackOf(b, R) /= {} /\ BlackOf(b, R2) /= {}
    /\ Congruent(BlackOf(b, R), BlackOf(b, R2))

\* C21: a region in which a Black cell has an Undecided 4-neighbour of the
\* same region is neither the scanned region nor the partner of a conflict
\* that find_inconsistency reports
C21_OpenNeverReported ==
    Conflict =>
        \A R \in RoomIds :
            OpenRegion(board, R) => (R /= reported[1] /\ R /= reported[2])

\* C21 witness: a conflict is reported while an open region with the shape
\* of the scanned region is black-adjacent to it
C21_Witness ==
    /\ Conflict
    /\ \E R \in RoomIds :
         /\ OpenRegion(board, R)
         /\ BlackAdjacent(board, R, reported[1])
         /\ Congruent(BlackOf(board, R), BlackOf(board, reported[1]))

\* C22: two closed regions of the same shape with no Black cell of one next
\* to a Black cell of the other are never the reported pair, and when no
\* two same-shaped closed regions are black-adjacent find_inconsistency
\* returns none
C22_NonAdjacentSameShape ==
    Checked =>
        /\ \A R \in RoomIds, R2 \in RoomIds :
             (SameShapeClosed(board, R, R2) /\ ~BlackAdjacent(board, R, R2))
                => (ret.kind = "Some" => reported /= <<R, R2>>)
        /\ (\A R \in RoomIds, R2 \in RoomIds :
              SameShapeClosed(board, R, R2) => ~BlackAdjacent(board, R, R2))
             => ret.kind = "None"

\* C22 witness: none is returned while two closed regions of the same shape
\* stand apart, the cells between them decided
C22_Witness ==
    /\ Checked
    /\ ret.kind = "None"
    /\ \E R \in RoomIds, R2 \in RoomIds :
         /\ SameShapeClosed(board, R, R2)
         /\ ~BlackAdjacent(board, R, R2)
         /\ \E c \in BlackOf(board, R), d \in Grid :
              Touching(c, d) /\ room_id_map[d] = R2 /\ board[d] = White

\* C23: on the 2x4 grid of two rows, once all 8 cells have been notified
\* Black, in whatever order, find_inconsistency returns an explanation
\* whose literals are the indices 0..7 with value true, each once, and no
\* literal with value false
C23_TwoRowsAllBlack ==
    (Checked /\ \A c \in Grid : board[c] = Black) =>
        /\ ret.kind = "Some"
        /\ SeqRange(ret.lits) = { <<i, TRUE>> : i \in 0 .. 7 }
        /\ Len(ret.lits) = 8

\* C23 witness: the check has run on the full board, the cells of the two
\* rows having been notified in an interleaved, non-ascending order
C23_Witness ==
    /\ Checked
    /\ \A c \in Grid : board[c] = Black
    /\ Len(decision_stack) = 8
    /\ decision_stack[1][1] = 1
    /\ decision_stack[2][1] = 0
    /\ decision_stack[8] = <<0, 0>>

\* R and R2 are a violating pair: closed, of the same shape, black-adjacent
Violating(b, R, R2) == SameShapeClosed(b, R, R2) /\ BlackAdjacent(b, R, R2)

\* the directions in the order the scan of a Black cell tries them
DirectionOrder == << <<0, 1>>, <<1, 0>>, <<0, -1>>, <<-1, 0>> >>

\* the k-th neighbour looked at when the Black cells are scanned in the
\* order of the vector `order`
VisitAt(order, k) ==
    LET c == order[((k - 1) \div 4) + 1]
        d == DirectionOrder[((k - 1) % 4) + 1]
    IN <<c[1] + d[1], c[2] + d[2]>>

\* the looks of that scan at a Black cell of a violating partner of R
ViolatingVisits(b, R, order) ==
    { k \in 1 .. 4 * Len(order) :
        /\ VisitAt(order, k) \in Grid
        /\ b[VisitAt(order, k)] = Black
        /\ Violating(b, R, room_id_map[VisitAt(order, k)]) }

\* the violating partner of R that such a scan discovers first
FirstDiscovered(b, R, order) ==
    room_id_map[VisitAt(order, SetMin(ViolatingVisits(b, R, order)))]

\* the least region that has a violating partner
LeastViolating(b) ==
    SetMin({ R \in RoomIds : \E R2 \in RoomIds : Violating(b, R, R2) })

\* C24 as stated: the reported pair is (R, R2), R the least region with a
\* violating partner and R2 the first violating partner of R in the order in
\* which the scan of R's Black cells, taken in some order, discovered R's
\* black-adjacent regions
C24_FirstDiscoveredPartner ==
    Conflict =>
        /\ reported[1] = LeastViolating(board)
        /\ \E order \in Orderings(BlackOf(board, reported[1])) :
             reported[2] = FirstDiscovered(board, reported[1], order)

\* C24 amended: the reported pair is (R, R2), R the least region with a
\* violating partner and R2 one of the violating partners of R
C24_LeastRegionSomePartner ==
    Conflict =>
        /\ reported[1] = LeastViolating(board)
        /\ Violating(board, reported[1], reported[2])

\* C24 witness: region 0 has two violating partners and the conflict is
\* reported with the one that every scan of region 0 discovers last
C24_Witness ==
    /\ Conflict
    /\ Cardinality({ R \in RoomIds : Violating(board, 0, R) }) = 2
    /\ reported[1] = 0
    /\ \A order \in Orderings(BlackOf(board, 0)) :
         reported[2] /= FirstDiscovered(board, 0, order)

\* C25: find_inconsistency treats a region as closed exactly when no Black
\* cell of it has an Undecided 4-neighbour inside the region; the edge of
\* the grid and cells of other regions, Undecided or not, never keep it
\* open; and the block stored for a closed region with Black cells is the
\* shape of all of its Black cells
C25_ClosureAsDefined ==
    Checked =>
        \A R \in RoomIds :
            /\ IsClosed(board, R) <=> ~OpenRegion(board, R)
            /\ (ClosedBlocks(board, R) /= <<>>)
                  <=> (~OpenRegion(board, R) /\ BlackOf(board, R) /= {})
            /\ (ClosedBlocks(board, R) /= <<>>) =>
                  /\ Congruent(BlackOf(board, R), CellsOf(ClosedBlocks(board, R)))
                  /\ Len(ClosedBlocks(board, R)) = Cardinality(BlackOf(board, R))

\* C25 witness: a conflict is reported for a region that has a Black cell
\* on the edge of the grid with an Undecided neighbour in another region,
\* and a White cell of its own next to a Black one
C25_Witness ==
    /\ Conflict
    /\ \E R \in { reported[1], reported[2] } :
         /\ \E c \in BlackOf(board, R), d \in Grid :
              Touching(c, d) /\ room_id_map[d] /= R /\ board[d] = Undecided
         /\ \E c \in BlackOf(board, R), d \in Grid :
              Touching(c, d) /\ room_id_map[d] = R /\ board[d] = White

\* no cell of R differs between the boards b and b2
SameInside(b, b2, R) == \A c \in Grid : room_id_map[c] = R => b2[c] = b[c]

\* the cell of the latest notify
Notified == CellOf(call.index)

C27_AdjacencyAsDefined ==
    Checked =>
        \A R \in RoomIds :
            ~OpenRegion(board, R) =>
                /\ AdjacentRooms(board, R)
                     = { R2 \in RoomIds \ {R} : BlackAdjacent(board, R, R2) }
                /\ R \notin AdjacentRooms(board, R)
                /\ \A R2 \in RoomIds :
                     ~OpenRegion(board, R2) =>
                        (R2 \in AdjacentRooms(board, R) <=> R \in AdjacentRooms(board, R2))

\* C27 witness: two closed regions are recorded for one another while a
\* Black cell of one of them touches a third region at a cell that is not
\* Black
C27_Witness ==
    /\ Checked
    /\ \E R \in RoomIds, R2 \in RoomIds, R3 \in RoomIds :
         /\ R /= R2 /\ R3 /= R /\ R3 /= R2
         /\ ~OpenRegion(board, R) /\ ~OpenRegion(board, R2)
         /\ R2 \in AdjacentRooms(board, R) /\ R \in AdjacentRooms(board, R2)
         /\ R3 \notin AdjacentRooms(board, R)
         /\ \E c \in BlackOf(board, R), d \in Grid :
              Touching(c, d) /\ room_id_map[d] = R3 /\ board[d] /= Black

LatestLiteral ==
    LET c == decision_stack[Len(decision_stack)]
    IN <<c[1] * width + c[2], board[c] = Black>>

\* find_inconsistency has returned a conflict after a notify before which
\* it returned none
NewConflict ==
    /\ Conflict
    /\ snapshot.taken
    /\ ReturnPairs(snapshot.board) = {}

\* C29: when find_inconsistency returns none in a state and an explanation
\* after one further notify on an Undecided cell, the explanation holds the
\* literal of that notify, and after the matching undo find_inconsistency
\* returns none again
C29_LatestAssignmentExplains ==
    [][ /\ NewConflict => LatestLiteral \in SeqRange(ret.lits)
        /\ (NewConflict /\ call'.op = "undo") =>
              /\ board' = snapshot.board
              /\ ReturnPairs(board') = {} ]_vars

\* C29 witness: turning a cell White has closed a region and raised a
\* conflict where there was none
C29_Witness ==
    /\ NewConflict
    /\ LatestLiteral[2] = FALSE
    /\ Len(decision_stack) >= 3

\* C30: in every explanation each index is one of 0 .. height * width - 1,
\* a cell listed as true is Black and one listed as false is White, each
\* of them is on the decision stack, no index is listed twice, and true
\* literals of two distinct regions are listed
C30_WellFormedExplanation ==
    Conflict =>
        /\ \A i \in DOMAIN ret.lits :
             /\ ret.lits[i][1] \in 0 .. height * width - 1
             /\ board[CellOf(ret.lits[i][1])] = (IF ret.lits[i][2] THEN Black ELSE White)
             /\ CellOf(ret.lits[i][1]) \in SeqRange(decision_stack)
        /\ \A i \in DOMAIN ret.lits : \A j \in DOMAIN ret.lits :
             i /= j => ret.lits[i][1] /= ret.lits[j][1]
        /\ \E i \in DOMAIN ret.lits, j \in DOMAIN ret.lits :
             /\ ret.lits[i][2] /\ ret.lits[j][2]
             /\ room_id_map[CellOf(ret.lits[i][1])] /= room_id_map[CellOf(ret.lits[j][1])]

\* C30 witness: an explanation with a true literal in the second row and a
\* false literal, on a board with a decided cell that it does not list
C30_Witness ==
    /\ Conflict
    /\ \E i \in DOMAIN ret.lits : ret.lits[i][2] /\ ret.lits[i][1] >= width
    /\ \E i \in DOMAIN ret.lits : ~ret.lits[i][2]
    /\ Len(decision_stack) > Len(ret.lits)

====
